---- MODULE Spec2Model ----
(***************************************************************************)
(* A model of pgcopydb's file_utils.c: whole-file buffer I/O, the          *)
(* existence predicates, the move/duplicate engine, the PATH resolver,     *)
(* the symlink deduplicator, the path normalizer and the lookup of the     *)
(* program's own path.                                                     *)
(*                                                                         *)
(* Every system call the code checks the result of is an environment       *)
(* choice here: a C function becomes an operator that returns the SET of   *)
(* results the function can produce from a given file system, one result   *)
(* per combination of system call outcomes.  An action picks one result.   *)
(***************************************************************************)
EXTENDS Integers, Sequences, FiniteSets, TLC

(***************************************************************************)
(* Sizes.  MAXPGPATH is 1024 in the build; the model scales it down and    *)
(* keeps every comparison against it as the code writes it.                *)
(***************************************************************************)
MAXPGPATH == 5

\* longest file content the model writes or finds on disk
MaxLen == 2

\* mode bits write_file and append_to_file create a file with (0644)
CreateMode == 420

\* a byte is 0 (the C string terminator) or 1 (any other byte)
Bytes == {0, 1}

ByteSeqs(n) == UNION {[1..k -> Bytes] : k \in 0..n}

Prefix(s, n) == IF Len(s) <= n THEN s ELSE SubSeq(s, 1, n)

(***************************************************************************)
(* The file system seen by move, duplicate, read, write and append: two    *)
(* path names in one directory, each shorter than MAXPGPATH as every path  *)
(* buffer of the program is.                                               *)
(***************************************************************************)
PathA == <<"d", "/", "a">>

PathB == <<"d", "/", "b">>

PathSet == {PathA, PathB}

\* the user and group the process runs as: what a created file is owned by
Proc == [uid |-> 0, gid |-> 0]

Absent == [present |-> FALSE, data |-> <<>>, uid |-> 0, gid |-> 0, mode |-> 0]

MkFile(d, u, g, m) == [present |-> TRUE, data |-> d, uid |-> u, gid |-> g, mode |-> m]

\* the owner/group/mode triples a file found on disk may carry (0644, 0600)
Identities == {<<0, 0, CreateMode>>, <<1, 1, 384>>}

DiskFiles == {MkFile(d, i[1], i[2], i[3]) : d \in ByteSeqs(MaxLen), i \in Identities}

(***************************************************************************)
(* Resources a call takes and gives back: descriptors opened and closed,   *)
(* buffers allocated and freed.                                            *)
(***************************************************************************)
Res0 == [opened |-> 0, closed |-> 0, alloc |-> 0, freed |-> 0]

ResPlus(a, b) == [opened |-> a.opened + b.opened, closed |-> a.closed + b.closed,
                  alloc |-> a.alloc + b.alloc, freed |-> a.freed + b.freed]

ResOf(o, c, a, f) == [opened |-> o, closed |-> c, alloc |-> a, freed |-> f]

(***************************************************************************)
(* file_exists: access(F_OK).  A path in `denied` cannot be looked up      *)
(* (errno is neither ENOENT nor ENOTDIR): the error is logged and the      *)
(* answer is false, as it is for a file that is not there.                 *)
(***************************************************************************)
file_exists(fs, denied, p) ==
    LET accessOk == fs[p].present /\ p \notin denied
        exists == accessOk
    IN  IF ~exists THEN FALSE ELSE exists

(***************************************************************************)
(* open(2) with O_CREAT and either O_TRUNC (FOPEN_FLAGS_W) or O_APPEND     *)
(* (FOPEN_FLAGS_A): the file once the descriptor is open.                  *)
(***************************************************************************)
open_create(fs, p, flags) ==
    IF ~fs[p].present
    THEN [fs EXCEPT ![p] = MkFile(<<>>, Proc.uid, Proc.gid, CreateMode)]
    ELSE IF flags = "W" THEN [fs EXCEPT ![p].data = <<>>] ELSE fs

(***************************************************************************)
(* fopen_with_umask: open, then fdopen; the descriptor is closed when      *)
(* fdopen fails.  Results: [stream, fs, res].                              *)
(***************************************************************************)
fopen_with_umask(fs, denied, p, flags) ==
    LET openFailed == [stream |-> FALSE, fs |-> fs, res |-> Res0]
        fdopenFailed == [stream |-> FALSE, fs |-> open_create(fs, p, flags),
                         res |-> ResOf(1, 1, 0, 0)]
        opened == [stream |-> TRUE, fs |-> open_create(fs, p, flags),
                   res |-> ResOf(1, 0, 0, 0)]
    IN  IF p \in denied THEN {openFailed} ELSE {openFailed, fdopenFailed, opened}

\* fopen_read_only: fopen(path, "rb"); TRUE when a stream was opened
fopen_read_only(fs, denied, p) ==
    IF ~fs[p].present \/ p \in denied THEN {FALSE} ELSE {TRUE, FALSE}

(***************************************************************************)
(* The bytes of the file after fwrite and fclose on a stream whose file    *)
(* held `old`: k bytes of data reached the file.                           *)
(***************************************************************************)
Flushed(old, data, k) == old \o Prefix(data, k)

(***************************************************************************)
(* The body write_file and append_to_file share, on the stream `o`:        *)
(* fwrite reports a short count (fewer than fileSize bytes reached the     *)
(* file), fclose reports EOF (any count did), or all of it was written.    *)
(* Results: [ok, fs, res].                                                 *)
(***************************************************************************)
write_stream(o, data, fileSize, p) ==
    LET put(k) == [o.fs EXCEPT ![p].data = Flushed(o.fs[p].data, data, k)]
        closed == ResPlus(o.res, ResOf(0, 1, 0, 0))
    IN  {[ok |-> FALSE, fs |-> put(k), res |-> closed] : k \in 0..(fileSize - 1)}
        \cup {[ok |-> FALSE, fs |-> put(k), res |-> closed] : k \in 0..fileSize}
        \cup {[ok |-> TRUE, fs |-> put(fileSize), res |-> closed]}

write_file(fs, denied, data, fileSize, p) ==
    UNION {IF ~o.stream
           THEN {[ok |-> FALSE, fs |-> o.fs, res |-> o.res]}
           ELSE write_stream(o, data, fileSize, p)
           : o \in fopen_with_umask(fs, denied, p, "W")}

append_to_file(fs, denied, data, fileSize, p) ==
    UNION {IF ~o.stream
           THEN {[ok |-> FALSE, fs |-> o.fs, res |-> o.res]}
           ELSE write_stream(o, data, fileSize, p)
           : o \in fopen_with_umask(fs, denied, p, "A")}

\* the index of the first terminator byte of s, less one: strlen
strlen(s) == IF \E i \in 1..Len(s) : s[i] = 0
             THEN (CHOOSE i \in 1..Len(s) : s[i] = 0 /\ \A j \in 1..(i - 1) : s[j] # 0) - 1
             ELSE Len(s)

\* read_file_internal taking the size from the terminator, not from ftell
read_file_internal_strlen(fs, p) ==
    LET buf == fs[p].data \o <<0>>
    IN  {[ok |-> TRUE, contents |-> buf, size |-> strlen(buf), res |-> ResOf(0, 1, 1, 0)]}

(***************************************************************************)
(* read_file_internal, on an open stream: the size is the end-of-stream    *)
(* offset, the buffer holds size + 1 bytes, the last one a terminator.     *)
(* Results: [ok, contents, size, res].                                     *)
(***************************************************************************)
read_file_internal(fs, p) ==
    LET fileSize == Len(fs[p].data)
        fail(r) == [ok |-> FALSE, contents |-> <<>>, size |-> 0, res |-> r]
    IN  {fail(ResOf(0, 1, 0, 0)),   \* fseek, ftell or malloc failed: fclose
         fail(ResOf(0, 1, 1, 1)),   \* short fread, or fclose failed: fclose, free
         [ok |-> TRUE, contents |-> fs[p].data \o <<0>>, size |-> fileSize,
          res |-> ResOf(0, 1, 1, 0)]}

read_file(fs, denied, p) ==
    UNION {IF ~o
           THEN {[ok |-> FALSE, contents |-> <<>>, size |-> 0, res |-> Res0]}
           ELSE {[r EXCEPT !.res = ResPlus(r.res, ResOf(1, 0, 0, 0))]
                 : r \in read_file_internal(fs, p)}
           : o \in fopen_read_only(fs, denied, p)}

(***************************************************************************)
(* file_is_empty: the buffer read_file hands over is never freed.          *)
(* Results: [ok, res].                                                     *)
(***************************************************************************)
file_is_empty(fs, denied, p) ==
    IF file_exists(fs, denied, p)
    THEN {IF ~r.ok THEN [ok |-> FALSE, res |-> r.res]
          ELSE [ok |-> (r.size = 0), res |-> r.res]
          : r \in read_file(fs, denied, p)}
    ELSE {[ok |-> FALSE, res |-> Res0]}

(***************************************************************************)
(* unlink_file: a file that is not there is good news; any other failure   *)
(* of unlink(2) is logged and reported.  Results: [ok, fs].                *)
(***************************************************************************)
unlink_file(fs, denied, p) ==
    IF p \in denied THEN {[ok |-> FALSE, fs |-> fs]}
    ELSE IF ~fs[p].present THEN {[ok |-> TRUE, fs |-> fs]}
    ELSE {[ok |-> TRUE, fs |-> [fs EXCEPT ![p] = Absent]],
          [ok |-> FALSE, fs |-> fs]}

(***************************************************************************)
(* strncmp(a, b, n) == 0: the first n characters agree.                    *)
(***************************************************************************)
strncmp_equal(a, b, n) == Prefix(a, n) = Prefix(b, n)

(***************************************************************************)
(* duplicate_file, after write_file succeeded: stat the source, then chown *)
(* and chmod the destination (chmod is tried even when chown failed).      *)
(* Results: [foundError, fs].                                              *)
(***************************************************************************)
copy_ownership(fs, sourcePath, destinationPath) ==
    LET st == fs[sourcePath]
        chowned(f, co) == IF co THEN [f EXCEPT ![destinationPath].uid = st.uid,
                                               ![destinationPath].gid = st.gid]
                          ELSE f
        chmoded(f, cm) == IF cm THEN [f EXCEPT ![destinationPath].mode = st.mode]
                          ELSE f
    IN  {[foundError |-> TRUE, fs |-> fs]}      \* stat failed
        \cup {[foundError |-> ~co \/ ~cm, fs |-> chmoded(chowned(fs, co), cm)]
              : co \in BOOLEAN, cm \in BOOLEAN}

(***************************************************************************)
(* duplicate_file.  Results: [ok, fs, res].                                *)
(***************************************************************************)
duplicate_file(fs, denied, sourcePath, destinationPath) ==
    UNION {
      IF ~rd.ok
      THEN {[ok |-> FALSE, fs |-> fs, res |-> rd.res]}
      ELSE IF file_exists(fs, denied, destinationPath)
      THEN {[ok |-> FALSE, fs |-> fs, res |-> rd.res]}
      ELSE UNION {
        LET res == ResPlus(ResPlus(rd.res, wr.res), ResOf(0, 0, 0, 1))
        IN  IF ~wr.ok
            THEN {[ok |-> FALSE, fs |-> wr.fs, res |-> res]}
            ELSE UNION {
              IF own.foundError
              THEN {[ok |-> FALSE, fs |-> ul.fs, res |-> res]
                    : ul \in unlink_file(own.fs, denied, destinationPath)}
              ELSE {[ok |-> TRUE, fs |-> own.fs, res |-> res]}
              : own \in copy_ownership(wr.fs, sourcePath, destinationPath)}
        : wr \in write_file(fs, denied, rd.contents, rd.size, destinationPath)}
      : rd \in read_file(fs, denied, sourcePath)}

(***************************************************************************)
(* rename(2): it succeeds, fails with EXDEV (the paths are on different    *)
(* file systems) or fails with another error.  Results: [errno, fs].       *)
(***************************************************************************)
rename(fs, denied, sourcePath, destinationPath) ==
    LET failed(e) == [errno |-> e, fs |-> fs]
        moved == [fs EXCEPT ![destinationPath] = fs[sourcePath],
                            ![sourcePath] = Absent]
    IN  IF sourcePath \in denied \/ destinationPath \in denied
        THEN {failed("EACCES")}
        ELSE {[errno |-> "none", fs |-> moved], failed("EXDEV"), failed("EACCES")}

\* move_file that does not look for the destination before it renames
move_distinct_unchecked(fs, denied, sourcePath, destinationPath) ==
    LET done(ok, f, e) == [ok |-> ok, fs |-> f, res |-> Res0, xdev |-> FALSE,
                           errno |-> e]
    IN  IF ~file_exists(fs, denied, sourcePath)
        THEN {done(FALSE, fs, "notcalled")}
        ELSE UNION {
          IF rn.errno = "none"
          THEN {done(TRUE, rn.fs, rn.errno)}
          ELSE IF rn.errno # "EXDEV"
          THEN {done(FALSE, fs, rn.errno)}
          ELSE UNION {
            IF ~dup.ok
            THEN {[ok |-> FALSE, fs |-> dup.fs, res |-> dup.res, xdev |-> TRUE,
                   errno |-> rn.errno]}
            ELSE {[ok |-> TRUE, fs |-> ul.fs, res |-> dup.res, xdev |-> TRUE,
                   errno |-> rn.errno]
                  : ul \in unlink_file(dup.fs, denied, sourcePath)}
            : dup \in duplicate_file(fs, denied, sourcePath, destinationPath)}
          : rn \in rename(fs, denied, sourcePath, destinationPath)}

\* move_file falling back on duplicate_file whatever made rename fail
move_distinct_any_errno(fs, denied, sourcePath, destinationPath) ==
    LET done(ok, f, e) == [ok |-> ok, fs |-> f, res |-> Res0, xdev |-> FALSE,
                           errno |-> e]
    IN  IF ~file_exists(fs, denied, sourcePath)
        THEN {done(FALSE, fs, "notcalled")}
        ELSE IF file_exists(fs, denied, destinationPath)
        THEN {done(FALSE, fs, "notcalled")}
        ELSE UNION {
          IF rn.errno = "none"
          THEN {done(TRUE, rn.fs, rn.errno)}
          ELSE UNION {
            IF ~dup.ok
            THEN {[ok |-> FALSE, fs |-> dup.fs, res |-> dup.res, xdev |-> TRUE,
                   errno |-> rn.errno]}
            ELSE {[ok |-> TRUE, fs |-> ul.fs, res |-> dup.res, xdev |-> TRUE,
                   errno |-> rn.errno]
                  : ul \in unlink_file(dup.fs, denied, sourcePath)}
            : dup \in duplicate_file(fs, denied, sourcePath, destinationPath)}
          : rn \in rename(fs, denied, sourcePath, destinationPath)}

\* move_file removing the source whatever duplicate_file returned
move_distinct_unlink_first(fs, denied, sourcePath, destinationPath) ==
    LET done(ok, f, e) == [ok |-> ok, fs |-> f, res |-> Res0, xdev |-> FALSE,
                           errno |-> e]
    IN  IF ~file_exists(fs, denied, sourcePath)
        THEN {done(FALSE, fs, "notcalled")}
        ELSE IF file_exists(fs, denied, destinationPath)
        THEN {done(FALSE, fs, "notcalled")}
        ELSE UNION {
          IF rn.errno = "none"
          THEN {done(TRUE, rn.fs, rn.errno)}
          ELSE IF rn.errno # "EXDEV"
          THEN {done(FALSE, fs, rn.errno)}
          ELSE UNION {
            {[ok |-> dup.ok, fs |-> ul.fs, res |-> dup.res, xdev |-> TRUE,
              errno |-> rn.errno]
             : ul \in unlink_file(dup.fs, denied, sourcePath)}
            : dup \in duplicate_file(fs, denied, sourcePath, destinationPath)}
          : rn \in rename(fs, denied, sourcePath, destinationPath)}

(***************************************************************************)
(* move_file, once the two paths are known to differ: the existence        *)
(* checks, rename, and on EXDEV duplicate_file and the unlink of the       *)
(* source, whose result is not looked at.  Results: [ok, fs, res, xdev,    *)
(* errno]; errno is what rename left ("notcalled" when move_file returned  *)
(* before it), xdev tells that duplicate_file ran.                         *)
(***************************************************************************)
move_distinct(fs, denied, sourcePath, destinationPath) ==
    LET done(ok, f, e) == [ok |-> ok, fs |-> f, res |-> Res0, xdev |-> FALSE,
                           errno |-> e]
    IN  IF ~file_exists(fs, denied, sourcePath)
        THEN {done(FALSE, fs, "notcalled")}
        ELSE IF file_exists(fs, denied, destinationPath)
        THEN {done(FALSE, fs, "notcalled")}
        ELSE UNION {
          IF rn.errno = "none"
          THEN {done(TRUE, rn.fs, rn.errno)}
          ELSE IF rn.errno # "EXDEV"
          THEN {done(FALSE, fs, rn.errno)}
          ELSE UNION {
            IF ~dup.ok
            THEN {[ok |-> FALSE, fs |-> dup.fs, res |-> dup.res, xdev |-> TRUE,
                   errno |-> rn.errno]}
            ELSE {[ok |-> TRUE, fs |-> ul.fs, res |-> dup.res, xdev |-> TRUE,
                   errno |-> rn.errno]
                  : ul \in unlink_file(dup.fs, denied, sourcePath)}
            : dup \in duplicate_file(fs, denied, sourcePath, destinationPath)}
          : rn \in rename(fs, denied, sourcePath, destinationPath)}

\* move_file without its first test: the paths are never compared
move_file_uncompared(fs, denied, sourcePath, destinationPath) ==
    move_distinct(fs, denied, sourcePath, destinationPath)

(***************************************************************************)
(* move_file: equal paths are nothing to move, and a success.              *)
(***************************************************************************)
move_file(fs, denied, sourcePath, destinationPath) ==
    IF strncmp_equal(sourcePath, destinationPath, MAXPGPATH)
    THEN {[ok |-> TRUE, fs |-> fs, res |-> Res0, xdev |-> FALSE, errno |-> "notcalled"]}
    ELSE move_distinct(fs, denied, sourcePath, destinationPath)

(***************************************************************************)
(* The path functions.  A path is a sequence of characters.  The disk is   *)
(* a map from absolute names to what is found there: nothing (<<>>), a     *)
(* regular file (the name itself) or a symbolic link (the name it points   *)
(* to).  The working directory is "/".                                     *)
(***************************************************************************)

\* entries of SearchPath.matches (1024 in the build)
MaxMatches == 2

\* PATH_MAX, the size of the realpath buffers (4096 in the build)
PATH_MAX == 7

\* longest value of the PATH variable
MaxPathList == 3

\* links followed before realpath and access give up (ELOOP)
MaxHops == 3

NameF == <<"/", "f">>

NameAF == <<"/", "a", "/", "f">>

NameBF == <<"/", "b", "/", "f">>

NameLong == <<"/", "b", "/", "f", "f">>

AbsNames == {NameF, NameAF, NameBF, NameLong}

\* what may be found at a name: /b/f and /b/ff are files when they are there
OnDisk(n) ==
    IF n \in {NameBF, NameLong} THEN {<<>>, n} ELSE {<<>>} \cup AbsNames

Disks == {d \in [AbsNames -> {<<>>} \cup AbsNames] : \A n \in AbsNames : d[n] \in OnDisk(n)}

\* the file searched for
FileName == <<"f">>

PathChars == {"a", "b", ":"}

CharSeqs(n) == UNION {[1..k -> PathChars] : k \in 0..n}

absolute(p) == IF p # <<>> /\ p[1] = "/" THEN p ELSE <<"/">> \o p

(***************************************************************************)
(* Path resolution, as access(2) and realpath(3) do it: ENOENT when        *)
(* nothing is there, ELOOP after too many links, else the name of the      *)
(* regular file reached.                                                   *)
(***************************************************************************)
ENOENT == <<"ENOENT">>

ELOOP == <<"ELOOP">>

RECURSIVE resolve(_, _, _)
resolve(disk, n, hops) ==
    IF n \notin AbsNames \/ disk[n] = <<>> THEN ENOENT
    ELSE IF disk[n] = n THEN n
    ELSE IF hops = 0 THEN ELOOP
    ELSE resolve(disk, disk[n], hops - 1)

\* realpath(3) of a path: the resolved absolute name, or <<>> on failure
realpath(disk, p) ==
    LET r == resolve(disk, absolute(p), MaxHops)
    IN  IF r \in {ENOENT, ELOOP} THEN <<>> ELSE r

\* the path as file_exists sees it: there or not, and whether access fails
\* with an error other than ENOENT
DiskView(disk, p) ==
    [q \in {p} |-> [present |-> resolve(disk, absolute(p), MaxHops) # ENOENT]]

Unreachable(disk, p) ==
    IF resolve(disk, absolute(p), MaxHops) = ELOOP THEN {p} ELSE {}

path_exists(disk, p) == file_exists(DiskView(disk, p), Unreachable(disk, p), p)

(***************************************************************************)
(* strlcpy(dst, src, n) leaves at most n - 1 characters of src in dst and  *)
(* returns the length of src.                                              *)
(***************************************************************************)
strlcpy(src, n) == [dst |-> Prefix(src, n - 1), ret |-> Len(src)]

\* join_path_components(ret, head, tail) into a buffer of MAXPGPATH bytes
join_path_components(head, tail) ==
    LET h == strlcpy(head, MAXPGPATH).dst
        sep == IF head # <<>> THEN <<"/">> ELSE <<>>
    IN  IF tail = <<>> THEN h ELSE Prefix(h \o sep \o tail, MAXPGPATH - 1)

\* canonicalize_path: trailing separators are removed
RECURSIVE canonicalize_path(_)
canonicalize_path(p) ==
    IF Len(p) > 1 /\ p[Len(p)] = "/" THEN canonicalize_path(SubSeq(p, 1, Len(p) - 1))
    ELSE p

(***************************************************************************)
(* SearchPath: found, and the matches array.  Only MaxMatches entries are  *)
(* the array's; `overrun` tells that an entry was written past its end.    *)
(***************************************************************************)
EmptySearchPath == [found |-> 0, matches |-> [i \in 1..MaxMatches |-> <<>>],
                    overrun |-> FALSE]

\* strlcpy(set->matches[set->found++], str, MAXPGPATH)
store_match(set, str) ==
    IF set.found < MaxMatches
    THEN [set EXCEPT !.found = set.found + 1,
                     !.matches[set.found + 1] = strlcpy(str, MAXPGPATH).dst]
    ELSE [set EXCEPT !.found = set.found + 1, !.overrun = TRUE]

\* the valid entries of a SearchPath, as a sequence
Entries(set) == [i \in 1..(IF set.found < MaxMatches THEN set.found ELSE MaxMatches)
                 |-> set.matches[i]]

\* first_path_var_separator: the index of the first ':' of path, or 0
first_path_var_separator(path) ==
    IF \E i \in 1..Len(path) : path[i] = ":"
    THEN CHOOSE i \in 1..Len(path) : path[i] = ":" /\ \A j \in 1..(i - 1) : path[j] # ":"
    ELSE 0

(***************************************************************************)
(* search_path, the loop over the segments of the PATH copy.               *)
(***************************************************************************)
RECURSIVE search_path_loop(_, _, _)
search_path_loop(disk, path, result) ==
    LET sep == first_path_var_separator(path)
        segment == IF sep = 0 THEN path ELSE SubSeq(path, 1, sep - 1)
        candidate == canonicalize_path(join_path_components(segment, FileName))
        next == IF path_exists(disk, candidate)
                THEN store_match(result, candidate)
                ELSE result
    IN  IF sep = 0 THEN next
        ELSE search_path_loop(disk, SubSeq(path, sep + 1, Len(path)), next)

(***************************************************************************)
(* search_path.  w.pathSet tells whether get_env_copy finds PATH.  A write *)
(* past the end of the array either damages what lies after it or stops    *)
(* the process.  Results: [ok, crashed, set].                              *)
(***************************************************************************)
search_path(w, result) ==
    LET cleared == [result EXCEPT !.found = 0, !.overrun = FALSE]
        filled == search_path_loop(w.disk, w.path, cleared)
    IN  IF ~w.pathSet
        THEN {[ok |-> FALSE, crashed |-> FALSE, set |-> cleared]}
        ELSE IF filled.overrun
        THEN {[ok |-> TRUE, crashed |-> FALSE, set |-> filled],
              [ok |-> FALSE, crashed |-> TRUE, set |-> filled]}
        ELSE {[ok |-> TRUE, crashed |-> FALSE, set |-> filled]}

(***************************************************************************)
(* search_path_deduplicate_symlinks, the loop from rIndex on.  An entry    *)
(* read past the end of the results array is `stray`.                      *)
(* Results: [ok, set].                                                     *)
(***************************************************************************)
RECURSIVE dedup_loop(_, _, _, _, _)
dedup_loop(disk, results, stray, rIndex, dedup) ==
    IF rIndex > results.found THEN [ok |-> TRUE, set |-> dedup]
    ELSE
      LET currentPath == IF rIndex <= MaxMatches THEN results.matches[rIndex] ELSE stray
          currentRealPath == realpath(disk, currentPath)
          alreadyThere == \E dIndex \in 1..dedup.found :
                             dIndex <= MaxMatches /\ dedup.matches[dIndex] = currentRealPath
          stored == store_match(dedup, currentRealPath)
          bytesWritten == strlcpy(currentRealPath, MAXPGPATH).ret
      IN  IF currentRealPath = <<>> THEN [ok |-> FALSE, set |-> dedup]
          ELSE IF alreadyThere
          THEN dedup_loop(disk, results, stray, rIndex + 1, dedup)
          ELSE IF bytesWritten >= MAXPGPATH THEN [ok |-> FALSE, set |-> stored]
          ELSE dedup_loop(disk, results, stray, rIndex + 1, stored)

\* the loop keeping the path as it was found instead of the resolved one
RECURSIVE dedup_loop_unresolved(_, _, _, _, _)
dedup_loop_unresolved(disk, results, stray, rIndex, dedup) ==
    IF rIndex > results.found THEN [ok |-> TRUE, set |-> dedup]
    ELSE
      LET currentPath == IF rIndex <= MaxMatches THEN results.matches[rIndex] ELSE stray
          currentRealPath == realpath(disk, currentPath)
          alreadyThere == \E dIndex \in 1..dedup.found :
                             dIndex <= MaxMatches /\ dedup.matches[dIndex] = currentRealPath
          stored == store_match(dedup, currentPath)
          bytesWritten == strlcpy(currentRealPath, MAXPGPATH).ret
      IN  IF currentRealPath = <<>> THEN [ok |-> FALSE, set |-> dedup]
          ELSE IF alreadyThere
          THEN dedup_loop_unresolved(disk, results, stray, rIndex + 1, dedup)
          ELSE IF bytesWritten >= MAXPGPATH THEN [ok |-> FALSE, set |-> stored]
          ELSE dedup_loop_unresolved(disk, results, stray, rIndex + 1, stored)

search_path_dedup_unresolved(disk, results, stray, dedup) ==
    dedup_loop_unresolved(disk, results, stray, 1, [dedup EXCEPT !.found = 0])

search_path_deduplicate_symlinks(disk, results, stray, dedup) ==
    dedup_loop(disk, results, stray, 1, [dedup EXCEPT !.found = 0])

(***************************************************************************)
(* normalize_filename(filename, dst, size).  Results: [ok, dst, overrun];  *)
(* overrun tells that more than size bytes were written to dst.            *)
(***************************************************************************)
normalize_filename(disk, filename, size) ==
    IF path_exists(disk, filename)
    THEN LET realPath == realpath(disk, filename)
             copy == strlcpy(realPath, size)
         IN  IF realPath = <<>>
             THEN [ok |-> FALSE, dst |-> <<>>, overrun |-> FALSE]
             ELSE IF copy.ret >= size
             THEN [ok |-> FALSE, dst |-> copy.dst, overrun |-> FALSE]
             ELSE [ok |-> TRUE, dst |-> copy.dst, overrun |-> FALSE]
    ELSE LET realPath == strlcpy(filename, MAXPGPATH).dst
             copy == strlcpy(realPath, MAXPGPATH)
         IN  [ok |-> TRUE, dst |-> copy.dst, overrun |-> Len(copy.dst) + 1 > size]

(***************************************************************************)
(* set_program_absolute_path, where /proc is looked at.  A character       *)
(* buffer is a sequence of `size` cells; NUL is the terminator.            *)
(***************************************************************************)
NUL == "NUL"

\* the /proc entries the loop tries, in its order
procEntryCandidates == <<"/proc/self/exe", "/proc/curproc/file", "/proc/self/path/a.out">>

procEntrySize == Len(procEntryCandidates)

\* errno of readlink(2) on a file that is there and is no symbolic link
EINVAL == <<"EINVAL">>

\* where each /proc entry points when it is a symbolic link
LinkTarget(procEntryIndex) == <<NameAF, NameF, NameLong>>[procEntryIndex]

\* what is found at the /proc entries: nothing, no link, or the link
ProcEntries == {proc \in [1..procEntrySize -> {ENOENT, EINVAL} \cup AbsNames] :
                  \A i \in 1..procEntrySize : proc[i] \in {ENOENT, EINVAL, LinkTarget(i)}}

\* pgcopydb_argv0: the program as it was invoked, a bare name or a full path
Argv0s == {FileName, NameBF}

\* the program buffer as its owner hands it over
ZeroBuffer(size) == [i \in 1..size |-> NUL]

(***************************************************************************)
(* readlink(2) puts at most size characters of the target in buf and adds  *)
(* no terminator; what buf held after them stays.  Result: [ret, buf].     *)
(***************************************************************************)
readlink(target, buf, size) ==
    LET n == IF Len(target) < size THEN Len(target) ELSE size
    IN  [ret |-> n, buf |-> [i \in 1..size |-> IF i <= n THEN target[i] ELSE buf[i]]]

\* the strings a reader of buf may see: up to the terminator, or, when buf
\* holds none, buf and whatever the memory after it holds
cstrings(buf) ==
    IF \E i \in 1..Len(buf) : buf[i] = NUL
    THEN {SubSeq(buf, 1, (CHOOSE i \in 1..Len(buf) :
                            buf[i] = NUL /\ \A j \in 1..(i - 1) : buf[j] # NUL) - 1)}
    ELSE {buf, buf \o <<"?">>}

(***************************************************************************)
(* The loop over procEntryCandidates: a link that is read sets found and   *)
(* the loop goes on; an entry that fails with an errno other than ENOENT   *)
(* and ENOTDIR ends the function.  Result: [failed, found, program].       *)
(***************************************************************************)
RECURSIVE proc_entry_loop(_, _, _, _, _)
proc_entry_loop(proc, procEntryIndex, program, size, found) ==
    IF procEntryIndex > procEntrySize
    THEN [failed |-> FALSE, found |-> found, program |-> program]
    ELSE IF proc[procEntryIndex] \notin {ENOENT, EINVAL}
    THEN proc_entry_loop(proc, procEntryIndex + 1,
                         readlink(proc[procEntryIndex], program, size).buf, size, TRUE)
    ELSE IF proc[procEntryIndex] # ENOENT
    THEN [failed |-> TRUE, found |-> found, program |-> program]
    ELSE proc_entry_loop(proc, procEntryIndex + 1, program, size, found)

(***************************************************************************)
(* set_program_absolute_path(program, size), the invocation name being     *)
(* argv0; search_path looks for FileName, the bare invocation name.        *)
(* Results: [ok, exited, crashed, program]; exited tells that the process  *)
(* ended with EXIT_CODE_INTERNAL_ERROR.                                    *)
(***************************************************************************)
set_program_absolute_path(w, proc, argv0, program, size) ==
    LET l == proc_entry_loop(proc, 1, program, size, FALSE)
        returns(ok, str) == [ok |-> ok, exited |-> FALSE, crashed |-> FALSE,
                             program |-> str]
    IN  IF l.failed THEN {returns(FALSE, str) : str \in cstrings(l.program)}
        ELSE IF l.found THEN {returns(TRUE, str) : str \in cstrings(l.program)}
        ELSE IF argv0[1] = "/" THEN {returns(TRUE, strlcpy(argv0, size).dst)}
        ELSE {IF paths.crashed
              THEN [ok |-> FALSE, exited |-> FALSE, crashed |-> TRUE, program |-> <<>>]
              ELSE IF ~paths.ok \/ paths.set.found = 0
              THEN [ok |-> FALSE, exited |-> TRUE, crashed |-> FALSE, program |-> <<>>]
              ELSE returns(TRUE, strlcpy(paths.set.matches[1], size).dst)
              : paths \in search_path(w, EmptySearchPath)}

(***************************************************************************)
(* State: the file system and the file call that has just returned; the    *)
(* PATH, links and files the path functions see, and the path call that    *)
(* has just returned.                                                      *)
(***************************************************************************)
VARIABLES fs, call, world, pcall

vars == <<fs, call, world, pcall>>

\* no call has returned, or its caller has taken the result
NoCall == [op |-> "none", src |-> <<>>, dst |-> <<>>, data |-> <<>>, size |-> 0,
           ret |-> FALSE, pre |-> <<>>, xdev |-> FALSE, res |-> Res0,
           handed |-> 0, contents |-> <<>>, after |-> <<>>,
           errno |-> "notcalled", denied |-> {}]

NoWorld == [disk |-> [n \in AbsNames |-> <<>>], path |-> <<>>, pathSet |-> FALSE]

NoPCall == [op |-> "none", ok |-> FALSE, crashed |-> FALSE,
            inp |-> EmptySearchPath, out |-> EmptySearchPath,
            filename |-> <<>>, size |-> 0, dst |-> <<>>, overrun |-> FALSE,
            again |-> FALSE, first |-> <<>>,
            proc |-> <<>>, argv0 |-> <<>>, program |-> <<>>, exited |-> FALSE]

\* subsets of the paths that cannot be looked up during one call
DeniedSets == SUBSET PathSet

(***************************************************************************)
(* The file calls: any file system to start from, one action per function. *)
(* write_file and append_to_file are given a buffer and its length.        *)
(***************************************************************************)
Init ==
    /\ fs \in [PathSet -> DiskFiles \cup {Absent}]
    /\ call = NoCall
    /\ world = NoWorld
    /\ pcall = NoPCall

MoveFile ==
    /\ call.op = "none"
    /\ \E s \in PathSet, d \in PathSet, denied \in DeniedSets :
         \E r \in move_file(fs, denied, s, d) :
           /\ fs' = r.fs
           /\ call' = [NoCall EXCEPT !.op = "move", !.src = s, !.dst = d,
                                     !.ret = r.ok, !.pre = fs, !.xdev = r.xdev,
                                     !.res = r.res, !.errno = r.errno,
                                     !.denied = denied]
    /\ UNCHANGED <<world, pcall>>

DuplicateFile ==
    /\ call.op = "none"
    /\ \E s \in PathSet, d \in PathSet, denied \in DeniedSets :
         \E r \in duplicate_file(fs, denied, s, d) :
           /\ fs' = r.fs
           /\ call' = [NoCall EXCEPT !.op = "duplicate", !.src = s, !.dst = d,
                                     !.ret = r.ok, !.pre = fs, !.res = r.res]
    /\ UNCHANGED <<world, pcall>>

WriteFile ==
    /\ call.op = "none"
    /\ \E p \in PathSet, denied \in DeniedSets, data \in ByteSeqs(MaxLen) :
         \E fileSize \in {Len(data)} :
           \E r \in write_file(fs, denied, data, fileSize, p) :
             /\ fs' = r.fs
             /\ call' = [NoCall EXCEPT !.op = "write", !.dst = p, !.data = data,
                                       !.size = fileSize, !.ret = r.ok,
                                       !.pre = fs, !.res = r.res]
    /\ UNCHANGED <<world, pcall>>

AppendToFile ==
    /\ call.op = "none"
    /\ \E p \in PathSet, denied \in DeniedSets, data \in ByteSeqs(MaxLen) :
         \E fileSize \in {Len(data)} :
           /\ Len(fs[p].data) + fileSize <= MaxLen
           /\ \E r \in append_to_file(fs, denied, data, fileSize, p) :
                /\ fs' = r.fs
                /\ call' = [NoCall EXCEPT !.op = "append", !.dst = p, !.data = data,
                                          !.size = fileSize, !.ret = r.ok,
                                          !.pre = fs, !.res = r.res]
    /\ UNCHANGED <<world, pcall>>

\* read_file, by a caller that has done nothing yet or has just written a file
ReadFile ==
    /\ call.op \in {"none", "write"}
    /\ \E p \in PathSet, denied \in DeniedSets :
         \E r \in read_file(fs, denied, p) :
           /\ fs' = fs
           /\ call' = [NoCall EXCEPT !.op = "read", !.src = p, !.ret = r.ok,
                                     !.size = r.size, !.contents = r.contents,
                                     !.pre = fs, !.res = r.res,
                                     !.handed = IF r.ok THEN 1 ELSE 0,
                                     !.after = IF call.op = "write"
                                               THEN <<call.dst, call.data, call.size, call.ret>>
                                               ELSE <<>>]
    /\ UNCHANGED <<world, pcall>>

FileIsEmpty ==
    /\ call.op = "none"
    /\ \E p \in PathSet, denied \in DeniedSets :
         \E r \in file_is_empty(fs, denied, p) :
           /\ fs' = fs
           /\ call' = [NoCall EXCEPT !.op = "isEmpty", !.src = p, !.ret = r.ok,
                                     !.pre = fs, !.res = r.res]
    /\ UNCHANGED <<world, pcall>>

\* the caller takes the result of the call
Return ==
    /\ call.op # "none"
    /\ call' = NoCall
    /\ UNCHANGED <<fs, world, pcall>>

Next ==
    \/ MoveFile
    \/ DuplicateFile
    \/ WriteFile
    \/ AppendToFile
    \/ ReadFile
    \/ FileIsEmpty
    \/ Return

Spec == Init /\ [][Next]_vars

(***************************************************************************)
(* The PATH resolver and the deduplicator: any disk and any PATH to start  *)
(* from.  search_path is given the SearchPath the last call left, and      *)
(* the deduplicator the result of the call before it.                      *)
(***************************************************************************)
Worlds == {w \in [disk : Disks, path : CharSeqs(MaxPathList), pathSet : BOOLEAN] :
             ~w.pathSet => w.path = <<>>}

\* what an entry read past the end of the matches array may hold
Strays == {<<"f">>, <<"z">>}

InitPath ==
    /\ fs = [p \in PathSet |-> Absent]
    /\ call = NoCall
    /\ world \in Worlds
    /\ pcall = NoPCall

SearchPath ==
    /\ pcall.op \in {"none", "search", "dedupe"}
    /\ ~pcall.crashed
    /\ \E r \in search_path(world, pcall.out) :
         pcall' = [NoPCall EXCEPT !.op = "search", !.ok = r.ok, !.crashed = r.crashed,
                                  !.inp = pcall.out, !.out = r.set]
    /\ UNCHANGED <<fs, call, world>>

DeduplicateSymlinks ==
    /\ pcall.op \in {"search", "dedupe"}
    /\ pcall.ok
    /\ \E stray \in (IF pcall.out.found > MaxMatches THEN Strays ELSE {<<>>}) :
         LET r == search_path_deduplicate_symlinks(world.disk, pcall.out, stray,
                                                   EmptySearchPath)
         IN  pcall' = [NoPCall EXCEPT !.op = "dedupe", !.ok = r.ok,
                                      !.inp = pcall.out, !.out = r.set,
                                      !.again = (pcall.op = "dedupe")]
    /\ UNCHANGED <<fs, call, world>>

NextPath ==
    \/ SearchPath
    \/ DeduplicateSymlinks

SpecPath == InitPath /\ [][NextPath]_vars

(***************************************************************************)
(* The normalizer: any disk, a file name and a destination size; then the  *)
(* normalizer again on what it returned.                                   *)
(***************************************************************************)
NormInputs == {<<"f">>, <<"a", "/", "f">>, NameBF, NameLong, <<"z">>,
               <<"z", "z", "z", "z", "z">>}

NormSizes == {MAXPGPATH - 2, MAXPGPATH, PATH_MAX}

InitNorm ==
    /\ fs = [p \in PathSet |-> Absent]
    /\ call = NoCall
    /\ world \in {w \in Worlds : ~w.pathSet}
    /\ pcall = NoPCall

NormalizeFilename ==
    /\ pcall.op = "none"
    /\ \E filename \in NormInputs, size \in NormSizes :
         LET r == normalize_filename(world.disk, filename, size)
         IN  pcall' = [NoPCall EXCEPT !.op = "normalize", !.ok = r.ok,
                                      !.filename = filename, !.size = size,
                                      !.dst = r.dst, !.overrun = r.overrun,
                                      !.first = filename]
    /\ UNCHANGED <<fs, call, world>>

NormalizeAgain ==
    /\ pcall.op = "normalize"
    /\ pcall.ok
    /\ ~pcall.again
    /\ LET r == normalize_filename(world.disk, pcall.dst, pcall.size)
       IN  pcall' = [NoPCall EXCEPT !.op = "normalize", !.ok = r.ok,
                                    !.filename = pcall.dst, !.size = pcall.size,
                                    !.dst = r.dst, !.overrun = r.overrun,
                                    !.again = TRUE, !.first = pcall.first]
    /\ UNCHANGED <<fs, call, world>>

NextNorm ==
    \/ NormalizeFilename
    \/ NormalizeAgain

SpecNorm == InitNorm /\ [][NextNorm]_vars

(***************************************************************************)
(* The program looking for its own path at startup: any disk and PATH,     *)
(* any /proc, invoked by a bare name or by a full path, with a program     *)
(* buffer of MAXPGPATH cells.                                              *)
(***************************************************************************)
InitSelf ==
    /\ fs = [p \in PathSet |-> Absent]
    /\ call = NoCall
    /\ world \in Worlds
    /\ pcall = NoPCall

SetProgramAbsolutePath ==
    /\ pcall.op = "none"
    /\ \E proc \in ProcEntries, argv0 \in Argv0s :
         \E r \in set_program_absolute_path(world, proc, argv0,
                                            ZeroBuffer(MAXPGPATH), MAXPGPATH) :
           pcall' = [NoPCall EXCEPT !.op = "self", !.ok = r.ok, !.crashed = r.crashed,
                                    !.exited = r.exited, !.program = r.program,
                                    !.proc = proc, !.argv0 = argv0,
                                    !.size = MAXPGPATH]
    /\ UNCHANGED <<fs, call, world>>

NextSelf ==
    \/ SetProgramAbsolutePath

SpecSelf == InitSelf /\ [][NextSelf]_vars

(***************************************************************************)
(* The claims.                                                             *)
(***************************************************************************)
Src == call.src

Dst == call.dst

SameIdentity(f, g) == f.uid = g.uid /\ f.gid = g.gid /\ f.mode = g.mode

\* C1: after a move that returned success through the cross-device path the
\* source does not exist and the destination has the source's former
\* contents, owner, group and mode, whatever each step's outcome was.
C1_CrossDeviceMove ==
    (call.op = "move" /\ call.ret /\ call.xdev) =>
        /\ ~fs[Src].present
        /\ fs[Dst].present
        /\ fs[Dst].data = call.pre[Src].data
        /\ SameIdentity(fs[Dst], call.pre[Src])

\* C2: duplicate is all-or-nothing: when the destination was absent before
\* the call and duplicate returns failure, the destination does not exist.
C2_DuplicateAllOrNothing ==
    (call.op = "duplicate" /\ ~call.pre[Dst].present /\ ~call.ret) =>
        ~fs[Dst].present

\* C3: when the destination exists before the call and is not the source
\* path, move and duplicate return failure and change nothing: the
\* destination is not replaced or modified, the source stays in place.
C3_NeverOverwrite ==
    (call.op \in {"move", "duplicate"} /\ Src # Dst /\ call.pre[Dst].present) =>
        /\ ~call.ret
        /\ fs = call.pre

\* a move refused although its source was there, because its destination was
C3_Witness ==
    /\ call.op = "move"
    /\ Src # Dst
    /\ call.pre[Src].present
    /\ call.pre[Dst].present
    /\ call.pre[Dst] # call.pre[Src]
    /\ ~call.ret

\* C4: move(a, a) returns success and leaves the file system unchanged,
\* whether or not a exists; nothing is opened, renamed, copied or unlinked.
C4_MoveOntoItself ==
    (call.op = "move" /\ Src = Dst) =>
        /\ call.ret
        /\ fs = call.pre
        /\ ~call.xdev
        /\ call.res = Res0

\* move(a, a) returned with a absent
C4_Witness ==
    /\ call.op = "move"
    /\ Src = Dst
    /\ ~call.pre[Src].present
    /\ call.ret

\* the write that came right before the read that has just returned
WrittenPath == call.after[1]

WrittenData == call.after[2]

WrittenSize == call.after[3]

WriteSucceeded == call.after[4]

ReadAfterWrite ==
    /\ call.op = "read"
    /\ call.after # <<>>
    /\ WriteSucceeded
    /\ WrittenPath = Src
    /\ call.ret

\* C5: a successful write(B, L, p) followed by a successful read(p) gives a
\* buffer whose first L bytes are B's and a length of L, whatever p held
\* before the write and whatever bytes (0 included) B holds.
C5_RoundTrip ==
    ReadAfterWrite =>
        /\ call.size = WrittenSize
        /\ Len(call.contents) = WrittenSize + 1
        /\ SubSeq(call.contents, 1, WrittenSize) = SubSeq(WrittenData, 1, WrittenSize)

\* the round trip of a buffer of MaxLen bytes whose first byte is 0
C5_Witness ==
    /\ ReadAfterWrite
    /\ WrittenSize = MaxLen
    /\ WrittenData[1] = 0
    /\ WrittenData[MaxLen] = 1
    /\ call.size = MaxLen

\* C10: every call returns with each descriptor it opened closed and each
\* buffer it allocated freed, the buffer a successful read hands to its
\* caller excepted.
C10_NoLeak ==
    (call.op # "none") =>
        /\ call.res.opened = call.res.closed
        /\ call.res.alloc = call.res.freed + call.handed

\* the segments of a PATH value, split at each ':'
RECURSIVE Segments(_)
Segments(path) ==
    LET sep == first_path_var_separator(path)
    IN  IF sep = 0 THEN <<path>>
        ELSE <<SubSeq(path, 1, sep - 1)>> \o Segments(SubSeq(path, sep + 1, Len(path)))

\* a directory segment joined with the file name
Joined(segment) == IF segment = <<>> THEN FileName ELSE segment \o <<"/">> \o FileName

OnDiskNow(p) == resolve(world.disk, absolute(p), MaxHops) \notin {ENOENT, ELOOP}

RECURSIVE ExistingCandidates(_)
ExistingCandidates(segs) ==
    IF segs = <<>> THEN <<>>
    ELSE (IF OnDiskNow(Joined(Head(segs))) THEN <<Joined(Head(segs))>> ELSE <<>>)
         \o ExistingCandidates(Tail(segs))

\* C6: in every state search_path and the deduplicator reach, the count of
\* valid entries is at most the capacity of the matches array.
C6_CountWithinCapacity ==
    (pcall.op \in {"search", "dedupe"}) =>
        /\ pcall.out.found <= MaxMatches
        /\ ~pcall.out.overrun
        /\ ~pcall.crashed

\* C7: search_path returns exactly the candidates that exist on disk, one
\* per PATH segment and in PATH order, whatever the result set held before.
C7_MatchesInPathOrder ==
    (pcall.op = "search" /\ world.pathSet) =>
        /\ pcall.ok
        /\ pcall.out.found = Len(ExistingCandidates(Segments(world.path)))
        /\ Entries(pcall.out) = ExistingCandidates(Segments(world.path))

\* the real paths of the entries of a sequence, each at its first occurrence
RECURSIVE FirstRealPaths(_, _)
FirstRealPaths(seq, seen) ==
    IF seq = <<>> THEN <<>>
    ELSE LET r == realpath(world.disk, Head(seq))
         IN  IF r \in seen THEN FirstRealPaths(Tail(seq), seen)
             ELSE <<r>> \o FirstRealPaths(Tail(seq), seen \cup {r})

DedupedSet == pcall.op = "dedupe" /\ pcall.ok /\ pcall.inp.found <= MaxMatches

C9_NormalizeIdempotent ==
    /\ (pcall.op = "normalize" /\ ~pcall.again /\ ~OnDiskNow(pcall.filename)) =>
         /\ pcall.ok
         /\ pcall.dst = pcall.filename
    /\ (pcall.op = "normalize" /\ pcall.again /\ OnDiskNow(pcall.first)) =>
         /\ pcall.ok
         /\ pcall.dst = pcall.filename

\* the path normalize_filename has to store in dst: the real path of a file
\* that is on disk, the name as it was given otherwise
NormalizeStores ==
    IF OnDiskNow(pcall.filename) THEN realpath(world.disk, pcall.filename)
    ELSE pcall.filename

\* a match whose real path does not fit an entry of the deduplicated set, in
\* a set whose matches all resolve
DedupeOverflows ==
    /\ pcall.inp.found <= MaxMatches
    /\ \A i \in 1..pcall.inp.found : realpath(world.disk, pcall.inp.matches[i]) # <<>>
    /\ \E i \in 1..pcall.inp.found :
         Len(realpath(world.disk, pcall.inp.matches[i])) >= MAXPGPATH

\* a PATH segment whose candidate does not fit the candidate buffer, and
\* whose shortened candidate is a file on disk
SearchOverflows ==
    \E i \in 1..Len(Segments(world.path)) :
      LET segment == Segments(world.path)[i]
      IN  /\ Len(Joined(segment)) >= MAXPGPATH
          /\ path_exists(world.disk,
                         canonicalize_path(join_path_components(segment, FileName)))

\* C11: whenever the path search_path, the deduplicator or normalize has to
\* store is longer than the buffer it is stored into, the call returns
\* failure: it never returns success with a shortened path.
C11_OverflowIsFailure ==
    /\ (pcall.op = "normalize" /\ Len(NormalizeStores) >= pcall.size) => ~pcall.ok
    /\ (pcall.op = "dedupe" /\ DedupeOverflows) => ~pcall.ok
    /\ (pcall.op = "search" /\ world.pathSet /\ SearchOverflows) => ~pcall.ok

\* a move of a source move_file found, to another path where it found nothing
MoveSawSourceOnly ==
    /\ call.op = "move"
    /\ Src # Dst
    /\ file_exists(call.pre, call.denied, Src)
    /\ ~file_exists(call.pre, call.denied, Dst)

\* C12: in a move between distinct paths, source present and destination
\* absent, rename is attempted first and its success ends the call with
\* success; duplicate is attempted only when rename failed with EXDEV; any
\* other failure of rename makes the move fail with no file created, removed
\* or modified.
C12_RenameFirst ==
    MoveSawSourceOnly =>
        /\ call.errno # "notcalled"
        /\ (call.errno = "none") => (call.ret /\ ~call.xdev /\ call.res = Res0)
        /\ call.xdev <=> (call.errno = "EXDEV")
        /\ (call.errno \notin {"none", "EXDEV"}) =>
             (~call.ret /\ fs = call.pre /\ call.res = Res0)

\* a move that failed because rename did, for a reason other than EXDEV
C12_Witness ==
    /\ MoveSawSourceOnly
    /\ call.denied = {}
    /\ call.errno = "EACCES"
    /\ ~call.ret
    /\ fs = call.pre

\* C14: a move that returns failure leaves the source with the contents,
\* owner and mode it had; the source is removed on the cross-device path
\* only once the destination holds all of its contents and has its owner
\* and mode.
C14_FailedMoveKeepsSource ==
    /\ (call.op = "move" /\ ~call.ret /\ call.pre[Src].present) =>
         fs[Src] = call.pre[Src]
    /\ (call.op = "move" /\ call.xdev /\ call.pre[Src].present /\ ~fs[Src].present) =>
         /\ fs[Dst].present
         /\ fs[Dst].data = call.pre[Src].data
         /\ SameIdentity(fs[Dst], call.pre[Src])

\* a move that failed in duplicate_file after the destination was created,
\* the source, which is not empty, still as it was
C14_Witness ==
    /\ call.op = "move"
    /\ ~call.ret
    /\ call.xdev
    /\ call.pre[Src].present
    /\ call.pre[Src].data # <<>>
    /\ ~call.pre[Dst].present
    /\ fs[Dst].present
    /\ fs[Src] = call.pre[Src]

\* the /proc entries whose link the loop has read: the links met before any
\* entry that ends the loop; and whether no entry is there at all
LinksRead == {i \in 1..procEntrySize :
                /\ pcall.proc[i] \notin {ENOENT, EINVAL}
                /\ \A j \in 1..(i - 1) : pcall.proc[j] # EINVAL}

NoProcEntry == \A i \in 1..procEntrySize : pcall.proc[i] = ENOENT

\* the matches a PATH search for the invocation name has to find
PathMatches == IF world.pathSet THEN ExistingCandidates(Segments(world.path)) ELSE <<>>

\* C13: when the link of any /proc entry is read the call returns success
\* with that link's target; only when no entry exists does it fall back, on
\* the invocation name as it is when that is an absolute path, else on the
\* first match of a PATH search for it; when the search finds nothing the
\* process exits with the internal error status and does not return.
C13_ResolveSelfPath ==
    (pcall.op = "self") =>
        /\ (LinksRead # {}) =>
             /\ pcall.ok
             /\ \E i \in LinksRead : pcall.program = pcall.proc[i]
        /\ (pcall.ok /\ LinksRead = {}) => NoProcEntry
        /\ (NoProcEntry /\ pcall.argv0[1] = "/") =>
             (pcall.ok /\ pcall.program = pcall.argv0)
        /\ (NoProcEntry /\ pcall.argv0[1] # "/" /\ PathMatches # <<>>) =>
             (pcall.ok /\ pcall.program = PathMatches[1])
        /\ (NoProcEntry /\ pcall.argv0[1] # "/" /\ PathMatches = <<>>) =>
             (pcall.exited /\ ~pcall.ok)

====
